---- MODULE Spec2Model ----
(***************************************************************************)
(* Model of the Twitch countdown-timer bot (src/bot.js): the permission    *)
(* gate, the Timer class, the timer registry (activeTimers), the chat      *)
(* message handler with its duplicate window, and the connection handling. *)
(*                                                                         *)
(* Time is Date.now() in milliseconds.  Strings that the code inspects     *)
(* character by character (user names, chat lines) are tuples of           *)
(* one-character strings.  A message identifier is a natural number, with  *)
(* 0 standing for a missing (falsy) tags.id.                               *)
(***************************************************************************)
EXTENDS Integers, Sequences, FiniteSets, TLC

VARIABLES
    now,                 \* Date.now()
    ALLOWED_USERS,       \* configuration: lower-cased allow-list
    ALLOW_MODS_AND_BROADCASTER, \* configuration flag
    heap,                \* Timer objects that are still referenced
    activeTimers,        \* the Map id -> Timer, in insertion order
    isConnected,
    connectionAttempts,
    processedMessages,   \* the Set of message ids, in insertion order
    startupPending,      \* the start-up setTimeout has not fired yet
    retryPending,        \* pending retry setTimeouts (connect failed)
    reconnectPending,    \* pending reconnect setTimeouts (disconnected)
    welcomePending,      \* pending "online" announcement setTimeouts
    connectCalls,        \* client.connect() promises not yet settled
    link,                \* the transport's session: "down" or "up"
    halted,              \* process.exit(0) has run
    out,                 \* client.say calls made by the last step
    last,                \* what the last step was (label and inputs)
    msgCount,            \* messages delivered so far
    ghost,               \* per Timer object: remaining time when it was
                         \* last paused, instant and number of its progress
                         \* messages
    recorded             \* every identifier the handler recorded, in order

vars == <<now, ALLOWED_USERS, ALLOW_MODS_AND_BROADCASTER, heap,
          activeTimers, isConnected, connectionAttempts, processedMessages,
          startupPending, retryPending, reconnectPending, welcomePending,
          connectCalls, link, halted, out, last, msgCount, ghost,
          recorded>>

connVars == <<isConnected, connectionAttempts, startupPending, retryPending,
              reconnectPending, welcomePending, connectCalls, link>>

cfgVars == <<ALLOWED_USERS, ALLOW_MODS_AND_BROADCASTER>>

----------------------------------------------------------------------------
(* Bounds of the model *)

MaxMinutes == 2      \* the clock stops after this many minutes
MaxMsgs == 3         \* chat messages delivered in one behaviour
MaxTimeMsgs == 5     \* the same, where the clock runs
MaxConnMsgs == 1     \* the same, where the transport misbehaves
MaxDedupMsgs == 102  \* the same, where the duplicate window fills up
MaxPending == 1      \* reconnections in progress at once
MaxConnPending == 2  \* the same, where the transport misbehaves
MaxObjs == 2         \* Timer objects alive at once
MaxLiveMsgs == 2     \* the same, where timers run to their end
MaxProgressMsgs == 3 \* the same, where progress is announced
MaxParseMsgs == 2    \* the same, where the start pattern is probed
MaxGateMsgs == 2     \* the same, where senders are turned away
MaxStatusMsgs == 3   \* the same, where the status is asked for
MaxMsgId == 1        \* message identifiers 1..MaxMsgId
MaxFrameMsgs == 3    \* chat messages delivered under SpecFrame

(* Program constants *)

MS_PER_MINUTE == 60000        \* 60 * 1000
TICK_MS == 1000               \* setInterval period
UPDATE_BUFFER_MS == 500       \* buffer in the update test
MAX_PROCESSED == 100          \* size cap of processedMessages
MAX_ATTEMPTS == 3             \* cap on connectionAttempts

(* The instants at which something happens: around every full minute.  The *)
(* clock jumps from one to any later one; a tick that is due fires at its  *)
(* due time or later, as with setInterval on a busy event loop.            *)
Instants == {m * MS_PER_MINUTE + o : m \in 0 .. MaxMinutes,
                                     o \in {-500, 0}} \ {-500}

Null == -1

----------------------------------------------------------------------------
(* Strings *)

LowerChar(c) ==
    CASE c = "A" -> "a"
      [] c = "B" -> "b"
      [] c = "E" -> "e"
      [] c = "I" -> "i"
      [] c = "M" -> "m"
      [] c = "N" -> "n"
      [] c = "P" -> "p"
      [] c = "R" -> "r"
      [] c = "S" -> "s"
      [] c = "T" -> "t"
      [] c = "U" -> "u"
      [] OTHER -> c

toLowerCase(s) == [i \in DOMAIN s |-> LowerChar(s[i])]

Digits == <<"0", "1", "2", "3", "4", "5", "6", "7", "8", "9">>

IsDigit(c) == \E d \in DOMAIN Digits : Digits[d] = c

DigitValue(c) == (CHOOSE d \in DOMAIN Digits : Digits[d] = c) - 1

\* number of consecutive digits of s starting at position i
RECURSIVE DigitRun(_, _)
DigitRun(s, i) ==
    IF i <= Len(s) /\ IsDigit(s[i]) THEN 1 + DigitRun(s, i + 1) ELSE 0

\* parseInt of a string of digits; NaN (here 0, equally falsy) when empty
RECURSIVE parseInt(_)
parseInt(s) ==
    IF Len(s) = 0 THEN 0
    ELSE 10 * parseInt(SubSeq(s, 1, Len(s) - 1)) + DigitValue(s[Len(s)])

\* message.match(/^!(\d+)min(\d+)?$/): <<group 1, group 2>>, or <<>> for null
timerMatch(message) ==
    LET n1 == DigitRun(message, 2)
        p  == 2 + n1
        n2 == DigitRun(message, p + 3)
    IN  IF /\ Len(message) >= 1
           /\ message[1] = "!"
           /\ n1 >= 1
           /\ Len(message) >= p + 2
           /\ message[p] = "m" /\ message[p + 1] = "i" /\ message[p + 2] = "n"
           /\ p + 3 + n2 = Len(message) + 1
        THEN <<SubSeq(message, 2, p - 1), SubSeq(message, p + 3, Len(message))>>
        ELSE <<>>

----------------------------------------------------------------------------
(* Inputs *)

alice == <<"a", "l">>
Alice == <<"A", "l">>
bob   == <<"b", "o">>

Usernames == {alice, Alice, bob}

\* tags.badges: absent, or an object with the two flags
NoBadges == [present |-> FALSE, broadcaster |-> FALSE, moderator |-> FALSE]

Moderator == [present |-> TRUE, broadcaster |-> FALSE, moderator |-> TRUE]

Broadcaster == [present |-> TRUE, broadcaster |-> TRUE, moderator |-> FALSE]

Badges == {NoBadges} \cup
          [present : {TRUE}, broadcaster : BOOLEAN, moderator : BOOLEAN]

\* who sends the chat messages of a behaviour: <<username, badges>>
Senders == {<<Alice, NoBadges>>, <<bob, NoBadges>>, <<bob, Moderator>>,
            <<bob, Broadcaster>>}

T_0min     == <<"!", "0", "m", "i", "n">>
T_1min0    == <<"!", "1", "m", "i", "n", "0">>
T_min      == <<"!", "m", "i", "n">>
T_1min     == <<"!", "1", "m", "i", "n">>
T_2min     == <<"!", "2", "m", "i", "n">>
T_2min2    == <<"!", "2", "m", "i", "n", "2">>
T_1MIN     == <<"!", "1", "M", "I", "N">>
T_pause    == <<"!", "p", "a", "u", "s", "e">>
T_Pause    == <<"!", "P", "a", "u", "s", "e">>
T_resume   == <<"!", "r", "e", "s", "u", "m", "e">>
T_stop     == <<"!", "s", "t", "o", "p", "t", "i", "m", "e", "r">>
T_timers   == <<"!", "t", "i", "m", "e", "r", "s">>
T_Timers   == <<"!", "T", "i", "m", "e", "r", "s">>
T_other    == <<"h", "i">>

Texts == {T_0min, T_1min0, T_min, T_1min, T_2min, T_2min2, T_1MIN, T_pause, T_Pause, T_resume, T_stop,
          T_timers, T_Timers, T_other}

\* the chat lines sent in a behaviour
Lines == {T_1min, T_2min2, T_1MIN, T_Pause, T_resume, T_stop, T_Timers}

Configs == { <<<< >>, TRUE>>, <<<< >>, FALSE>>,
             <<<<alice>>, FALSE>>, <<<<alice>>, TRUE>> }

----------------------------------------------------------------------------
(* Permission check *)

Includes(list, x) == \E i \in DOMAIN list : list[i] = x

\* hasPermission whose moderator rule does not look at
\* ALLOW_MODS_AND_BROADCASTER
hasPermission_AnyModerator(tags) ==
    LET username == toLowerCase(tags.username)
    IN  IF tags.badges.present /\ tags.badges.broadcaster THEN TRUE
        ELSE IF tags.badges.present /\ tags.badges.moderator THEN TRUE
        ELSE IF Len(ALLOWED_USERS) > 0 /\ Includes(ALLOWED_USERS, username)
             THEN TRUE
        ELSE IF Len(ALLOWED_USERS) = 0 /\ ~ALLOW_MODS_AND_BROADCASTER
             THEN TRUE
        ELSE FALSE

hasPermission(tags) ==
    LET username == toLowerCase(tags.username)
    IN  IF tags.badges.present /\ tags.badges.broadcaster THEN TRUE
        ELSE IF ALLOW_MODS_AND_BROADCASTER /\ tags.badges.present
                /\ tags.badges.moderator THEN TRUE
        ELSE IF Len(ALLOWED_USERS) > 0 /\ Includes(ALLOWED_USERS, username)
             THEN TRUE
        ELSE IF Len(ALLOWED_USERS) = 0 /\ ~ALLOW_MODS_AND_BROADCASTER
             THEN TRUE
        ELSE FALSE

----------------------------------------------------------------------------
(* The Timer class.  A world W is [heap, reg, out, oom]: the Timer objects, *)
(* the activeTimers map, the messages said so far in this step, and         *)
(* whether an allocation found no free object (a bound of the model).       *)

Refs == 1 .. MaxObjs

NoTimer == [free |-> TRUE]

IsFree(h, r) == "free" \in DOMAIN h[r]

Ceil(a, b) == -((-a) \div b)

World == [heap |-> heap, reg |-> activeTimers, out |-> <<>>, oom |-> FALSE]

InReg(reg, r) == \E i \in DOMAIN reg : reg[i].ref = r

HasKey(reg, id) == \E i \in DOMAIN reg : reg[i].id = id

\* Map.delete(id)
MapDelete(reg, id) == SelectSeq(reg, LAMBDA e : e.id # id)

\* Map.set(id, ref)
MapSet(reg, id, r) ==
    IF HasKey(reg, id)
    THEN [i \in DOMAIN reg |-> IF reg[i].id = id THEN [id |-> id, ref |-> r]
                                                 ELSE reg[i]]
    ELSE Append(reg, [id |-> id, ref |-> r])

\* an object nothing refers to any more (neither the map nor a live
\* setInterval closure) is garbage
Collect(h, reg) ==
    [r \in Refs |-> IF ~IsFree(h, r) /\ h[r].interval # "live" /\ ~InReg(reg, r)
                    THEN NoTimer ELSE h[r]]

sendMessage(W, message) ==
    IF isConnected THEN [W EXCEPT !.out = Append(@, message)] ELSE W

\* Timer.start(): clear any existing interval, create the 1 s loop
TimerStart(t) == [t EXCEPT !.interval = "live", !.due = now + TICK_MS]

\* new Timer(username, minutes, intervalMinutes, channel)
NewTimer(username, minutes, intervalMinutes) ==
    TimerStart([id |-> <<username, now>>,
                username |-> username,
                totalMinutes |-> minutes,
                intervalMinutes |-> intervalMinutes,
                startTime |-> now,
                endTime |-> now + minutes * MS_PER_MINUTE,
                lastUpdate |-> now,
                isPaused |-> FALSE,
                pausedAt |-> Null,
                totalPausedTime |-> 0,
                interval |-> "null",
                due |-> Null])

\* elapsed and remaining as tick() computes them
TickRemaining(t) ==
    t.totalMinutes * MS_PER_MINUTE - (now - t.startTime - t.totalPausedTime)

\* Timer.cleanup() that deletes the oldest entry of the map, not its own
cleanup_Oldest(W, r) ==
    LET t == W.heap[r]
        h == IF t.interval # "null"
             THEN [W.heap EXCEPT ![r].interval = "cleared"]
             ELSE W.heap
    IN  [W EXCEPT !.heap = h,
                  !.reg = IF W.reg = <<>> THEN W.reg ELSE Tail(W.reg)]

\* Timer.cleanup() without clearInterval(this.interval)
cleanup_NoClear(W, r) ==
    [W EXCEPT !.reg = MapDelete(W.reg, W.heap[r].id)]

\* Timer.cleanup()
cleanup(W, r) ==
    LET t == W.heap[r]
        h == IF t.interval # "null"
             THEN [W.heap EXCEPT ![r].interval = "cleared"]
             ELSE W.heap
    IN  [W EXCEPT !.heap = h, !.reg = MapDelete(W.reg, t.id)]

timeString(remaining) ==
    LET remainingMinutes == Ceil(remaining, MS_PER_MINUTE)
        remainingSeconds == Ceil(remaining % MS_PER_MINUTE, 1000)
    IN  IF remainingMinutes >= 1
        THEN [value |-> remainingMinutes,
              unit |-> IF remainingMinutes # 1 THEN "minutes" ELSE "minute"]
        ELSE [value |-> remainingSeconds,
              unit |-> IF remainingSeconds # 1 THEN "seconds" ELSE "second"]

\* Timer.tick() that completes a timer within one tick period of its end
tick_Early(W, r) ==
    LET t == W.heap[r]
        remaining == TickRemaining(t)
        timeSinceLastUpdate == now - t.lastUpdate
        updateInterval == t.intervalMinutes * MS_PER_MINUTE
    IN  IF t.isPaused THEN W
        ELSE IF remaining <= TICK_MS
        THEN cleanup(sendMessage(W, [kind |-> "complete", user |-> t.username,
                                     total |-> t.totalMinutes]), r)
        ELSE IF timeSinceLastUpdate >= updateInterval - UPDATE_BUFFER_MS
        THEN LET W1 == sendMessage(W, [kind |-> "progress",
                                       user |-> t.username,
                                       time |-> timeString(remaining)])
             IN  [W1 EXCEPT !.heap[r].lastUpdate = now]
        ELSE W

\* Timer.tick() whose update interval is one minute whatever
\* intervalMinutes is
tick_EveryMinute(W, r) ==
    LET t == W.heap[r]
        remaining == TickRemaining(t)
        timeSinceLastUpdate == now - t.lastUpdate
        updateInterval == MS_PER_MINUTE
    IN  IF t.isPaused THEN W
        ELSE IF remaining <= 0
        THEN cleanup(sendMessage(W, [kind |-> "complete", user |-> t.username,
                                     total |-> t.totalMinutes]), r)
        ELSE IF timeSinceLastUpdate >= updateInterval - UPDATE_BUFFER_MS
        THEN LET W1 == sendMessage(W, [kind |-> "progress",
                                       user |-> t.username,
                                       time |-> timeString(remaining)])
             IN  [W1 EXCEPT !.heap[r].lastUpdate = now]
        ELSE W

\* Timer.tick(), called by the interval of object r
tick(W, r) ==
    LET t == W.heap[r]
        remaining == TickRemaining(t)
        timeSinceLastUpdate == now - t.lastUpdate
        updateInterval == t.intervalMinutes * MS_PER_MINUTE
    IN  IF t.isPaused THEN W
        ELSE IF remaining <= 0
        THEN cleanup(sendMessage(W, [kind |-> "complete", user |-> t.username,
                                     total |-> t.totalMinutes]), r)
        ELSE IF timeSinceLastUpdate >= updateInterval - UPDATE_BUFFER_MS
        THEN LET W1 == sendMessage(W, [kind |-> "progress",
                                       user |-> t.username,
                                       time |-> timeString(remaining)])
             IN  [W1 EXCEPT !.heap[r].lastUpdate = now]
        ELSE W

\* Timer.pause() without clearInterval(this.interval)
pause_KeepInterval(t) ==
    IF t.isPaused THEN <<FALSE, t>>
    ELSE <<TRUE, [t EXCEPT !.isPaused = TRUE, !.pausedAt = now]>>

\* Timer.pause(): <<result, timer>>
pause(t) ==
    IF t.isPaused THEN <<FALSE, t>>
    ELSE <<TRUE, [t EXCEPT !.isPaused = TRUE, !.pausedAt = now,
                           !.interval = "cleared"]>>

\* Timer.resume() with totalPausedTime = pauseDuration in place of +=
resume_LastPauseOnly(t) ==
    IF ~t.isPaused THEN <<FALSE, t>>
    ELSE LET pauseDuration == now - t.pausedAt
         IN  <<TRUE, TimerStart([t EXCEPT
                         !.totalPausedTime = pauseDuration,
                         !.isPaused = FALSE,
                         !.pausedAt = Null])>>

\* Timer.resume(): <<result, timer>>
resume(t) ==
    IF ~t.isPaused THEN <<FALSE, t>>
    ELSE LET pauseDuration == now - t.pausedAt
         IN  <<TRUE, TimerStart([t EXCEPT
                         !.totalPausedTime = @ + pauseDuration,
                         !.isPaused = FALSE,
                         !.pausedAt = Null])>>

\* Timer.getStatus() that does not leave out the pause in progress
getStatus_NoPause(t) ==
    LET elapsed == now - t.startTime - t.totalPausedTime
        remaining == t.totalMinutes * MS_PER_MINUTE - elapsed
    IN  [remaining |-> Ceil(remaining, MS_PER_MINUTE),
         isPaused |-> t.isPaused,
         total |-> t.totalMinutes]

\* Timer.getStatus() that does not leave out the pauses that are over
getStatus_NoCumulative(t) ==
    LET elapsed == now - t.startTime
                   - (IF t.isPaused THEN now - t.pausedAt ELSE 0)
        remaining == t.totalMinutes * MS_PER_MINUTE - elapsed
    IN  [remaining |-> Ceil(remaining, MS_PER_MINUTE),
         isPaused |-> t.isPaused,
         total |-> t.totalMinutes]

\* Timer.getStatus()
getStatus(t) ==
    LET elapsed == now - t.startTime - t.totalPausedTime
                   - (IF t.isPaused THEN now - t.pausedAt ELSE 0)
        remaining == t.totalMinutes * MS_PER_MINUTE - elapsed
    IN  [remaining |-> Ceil(remaining, MS_PER_MINUTE),
         isPaused |-> t.isPaused,
         total |-> t.totalMinutes]

----------------------------------------------------------------------------
(* The registry operations *)

\* for (const [id, timer] of activeTimers.entries())
\*     if (timer.username === username) timer.cleanup();
\* over the entries from position i on; an entry deleted before the loop
\* reaches it is not visited.  Yields the world and the number cleaned up.
RECURSIVE CleanupOwned(_, _, _, _)
CleanupOwned(W, entries, i, username) ==
    IF i > Len(entries) THEN [W |-> W, count |-> 0]
    ELSE LET e == entries[i]
             present == \E j \in DOMAIN W.reg : W.reg[j] = e
         IN  IF present /\ W.heap[e.ref].username = username
             THEN LET rest == CleanupOwned(cleanup(W, e.ref), entries, i + 1,
                                           username)
                  IN  [W |-> rest.W, count |-> rest.count + 1]
             ELSE CleanupOwned(W, entries, i + 1, username)

FreeRefs(h) == {r \in Refs : IsFree(h, r)}

\* startTimer without its clean-up loop
startTimer_NoCleanup(W, username, minutes, intervalMinutes) ==
    LET h1 == Collect(W.heap, W.reg)
        free == FreeRefs(h1)
    IN  IF free = {} THEN [W EXCEPT !.oom = TRUE]
        ELSE LET r == CHOOSE x \in free : \A y \in free : x <= y
                 timer == NewTimer(username, minutes, intervalMinutes)
                 W2 == [W EXCEPT !.heap = [h1 EXCEPT ![r] = timer],
                                 !.reg = MapSet(W.reg, timer.id, r)]
             IN  sendMessage(W2, [kind |-> "started", user |-> username,
                                  minutes |-> minutes,
                                  interval |-> intervalMinutes])

startTimer(W, username, minutes, intervalMinutes) ==
    LET W1 == CleanupOwned(W, W.reg, 1, username).W
        h1 == Collect(W1.heap, W1.reg)
        free == FreeRefs(h1)
    IN  IF free = {} THEN [W1 EXCEPT !.oom = TRUE]
        ELSE LET r == CHOOSE x \in free : \A y \in free : x <= y
                 timer == NewTimer(username, minutes, intervalMinutes)
                 W2 == [W1 EXCEPT !.heap = [h1 EXCEPT ![r] = timer],
                                  !.reg = MapSet(W1.reg, timer.id, r)]
             IN  sendMessage(W2, [kind |-> "started", user |-> username,
                                  minutes |-> minutes,
                                  interval |-> intervalMinutes])

\* the search loop comparing owners without regard to letter case
FirstWhere_IgnoreCase(W, username, paused) ==
    LET hits == {i \in DOMAIN W.reg :
                    /\ toLowerCase(W.heap[W.reg[i].ref].username)
                           = toLowerCase(username)
                    /\ W.heap[W.reg[i].ref].isPaused = paused}
    IN  IF hits = {} THEN 0 ELSE CHOOSE i \in hits : \A j \in hits : i <= j

\* for (const [id, timer] of activeTimers.entries())
\*     if (timer.username === username && timer.isPaused === paused) ...
\* position of the first such entry, 0 when there is none
FirstWhere(W, username, paused) ==
    LET hits == {i \in DOMAIN W.reg :
                    /\ W.heap[W.reg[i].ref].username = username
                    /\ W.heap[W.reg[i].ref].isPaused = paused}
    IN  IF hits = {} THEN 0 ELSE CHOOSE i \in hits : \A j \in hits : i <= j

\* pauseTimer without its "if (!found)" message
pauseTimer_Silent(W, username) ==
    LET i == FirstWhere(W, username, FALSE)
    IN  IF i = 0
        THEN W
        ELSE LET r == W.reg[i].ref
                 res == pause(W.heap[r])
                 W1 == [W EXCEPT !.heap[r] = res[2]]
             IN  IF res[1]
                 THEN sendMessage(W1, [kind |-> "paused", user |-> username,
                          remaining |-> getStatus(res[2]).remaining])
                 ELSE W1

pauseTimer(W, username) ==
    LET i == FirstWhere(W, username, FALSE)
    IN  IF i = 0
        THEN sendMessage(W, [kind |-> "noActive", user |-> username])
        ELSE LET r == W.reg[i].ref
                 res == pause(W.heap[r])
                 W1 == [W EXCEPT !.heap[r] = res[2]]
             IN  IF res[1]
                 THEN sendMessage(W1, [kind |-> "paused", user |-> username,
                          remaining |-> getStatus(res[2]).remaining])
                 ELSE sendMessage(W1, [kind |-> "noActive", user |-> username])

resumeTimer(W, username) ==
    LET i == FirstWhere(W, username, TRUE)
    IN  IF i = 0
        THEN sendMessage(W, [kind |-> "noPaused", user |-> username])
        ELSE LET r == W.reg[i].ref
                 res == resume(W.heap[r])
                 W1 == [W EXCEPT !.heap[r] = res[2]]
             IN  IF res[1]
                 THEN sendMessage(W1, [kind |-> "resumed", user |-> username,
                          remaining |-> getStatus(res[2]).remaining])
                 ELSE sendMessage(W1, [kind |-> "noPaused", user |-> username])

stopTimers(W, username) ==
    LET done == CleanupOwned(W, W.reg, 1, username)
    IN  IF done.count > 0
        THEN sendMessage(done.W, [kind |-> "stopped", user |-> username,
                                  count |-> done.count])
        ELSE sendMessage(done.W, [kind |-> "noTimers", user |-> username])

showTimerStatus(W, username) ==
    LET owned == SelectSeq(W.reg, LAMBDA e : W.heap[e.ref].username = username)
        userTimers == [i \in DOMAIN owned |->
                          LET status == getStatus(W.heap[owned[i].ref])
                          IN  [remaining |-> status.remaining,
                               paused |-> status.isPaused]]
    IN  IF Len(userTimers) > 0
        THEN sendMessage(W, [kind |-> "status", user |-> username,
                             timers |-> userTimers])
        ELSE sendMessage(W, [kind |-> "statusNone", user |-> username])

----------------------------------------------------------------------------
(* client.on('message') *)

\* processedMessages.add(messageId) that never drops an identifier
Remember_KeepAll(pm, messageId) ==
    IF Includes(pm, messageId) THEN pm ELSE Append(pm, messageId)

\* processedMessages.add(messageId), then drop the newest above the cap
Remember_DropNewest(pm, messageId) ==
    LET added == IF Includes(pm, messageId) THEN pm ELSE Append(pm, messageId)
    IN  IF Len(added) > MAX_PROCESSED
        THEN SubSeq(added, 1, MAX_PROCESSED) ELSE added

\* processedMessages.add(messageId), then drop the oldest above the cap
Remember(pm, messageId) ==
    LET added == IF Includes(pm, messageId) THEN pm ELSE Append(pm, messageId)
    IN  IF Len(added) > MAX_PROCESSED THEN Tail(added) ELSE added

\* the dispatch without its isConnected tests
dispatch_Unguarded(W, username, message) ==
    LET lowerMessage == toLowerCase(message)
        m == timerMatch(message)
    IN  IF m # <<>>
        THEN LET minutes == parseInt(m[1])
                 interval == IF parseInt(m[2]) = 0 THEN 1 ELSE parseInt(m[2])
             IN  [act |-> "start",
                  W |-> startTimer(W, username, minutes, interval)]
        ELSE IF lowerMessage = T_pause
        THEN [act |-> "pause", W |-> pauseTimer(W, username)]
        ELSE IF lowerMessage = T_resume
        THEN [act |-> "resume", W |-> resumeTimer(W, username)]
        ELSE IF lowerMessage = T_stop
        THEN [act |-> "stop", W |-> stopTimers(W, username)]
        ELSE IF lowerMessage = T_timers
        THEN [act |-> "timers", W |-> showTimerStatus(W, username)]
        ELSE [act |-> "other", W |-> W]

\* what the handler does with the command once the sender may use it
dispatch(W, username, message) ==
    LET lowerMessage == toLowerCase(message)
        m == timerMatch(message)
    IN  IF m # <<>>
        THEN LET minutes == parseInt(m[1])
                 interval == IF parseInt(m[2]) = 0 THEN 1 ELSE parseInt(m[2])
             IN  [act |-> "start",
                  W |-> IF isConnected
                        THEN startTimer(W, username, minutes, interval) ELSE W]
        ELSE IF lowerMessage = T_pause
        THEN [act |-> "pause",
              W |-> IF isConnected THEN pauseTimer(W, username) ELSE W]
        ELSE IF lowerMessage = T_resume
        THEN [act |-> "resume",
              W |-> IF isConnected THEN resumeTimer(W, username) ELSE W]
        ELSE IF lowerMessage = T_stop
        THEN [act |-> "stop",
              W |-> IF isConnected THEN stopTimers(W, username) ELSE W]
        ELSE IF lowerMessage = T_timers
        THEN [act |-> "timers",
              W |-> IF isConnected THEN showTimerStatus(W, username) ELSE W]
        ELSE [act |-> "other", W |-> W]

\* the handler refusing !stoptimer aloud as it does the other commands
onMessage_StopRefusal(tags, message, self) ==
    LET messageId == tags.id
        username == tags.username
        lowerMessage == toLowerCase(message)
        m == timerMatch(message)
        needsPermission == \/ m # <<>>
                           \/ lowerMessage = T_stop
                           \/ lowerMessage = T_pause
                           \/ lowerMessage = T_resume
        pm == IF messageId # 0 THEN Remember(processedMessages, messageId)
              ELSE processedMessages
    IN  IF self THEN [act |-> "self", W |-> World, pm |-> processedMessages]
        ELSE IF messageId # 0 /\ Includes(processedMessages, messageId)
        THEN [act |-> "duplicate", W |-> World, pm |-> processedMessages]
        ELSE IF needsPermission /\ ~hasPermission(tags)
        THEN [act |-> "denied",
              W |-> sendMessage(World, [kind |-> "refused",
                                        user |-> username]),
              pm |-> pm]
        ELSE LET d == dispatch(World, username, message)
             IN  [act |-> d.act, W |-> d.W, pm |-> pm]

\* the handler with "if (self) return" after the identifier is recorded
onMessage_SelfAfterRecord(tags, message, self) ==
    LET messageId == tags.id
        username == tags.username
        lowerMessage == toLowerCase(message)
        m == timerMatch(message)
        needsPermission == \/ m # <<>>
                           \/ lowerMessage = T_stop
                           \/ lowerMessage = T_pause
                           \/ lowerMessage = T_resume
        pm == IF messageId # 0 THEN Remember(processedMessages, messageId)
              ELSE processedMessages
    IN  IF messageId # 0 /\ Includes(processedMessages, messageId)
        THEN [act |-> "duplicate", W |-> World, pm |-> processedMessages]
        ELSE IF self THEN [act |-> "self", W |-> World, pm |-> pm]
        ELSE IF needsPermission /\ ~hasPermission(tags)
        THEN [act |-> "denied",
              W |-> IF \/ m # <<>>
                       \/ lowerMessage = T_pause
                       \/ lowerMessage = T_resume
                    THEN sendMessage(World, [kind |-> "refused",
                                             user |-> username])
                    ELSE World,
              pm |-> pm]
        ELSE LET d == dispatch(World, username, message)
             IN  [act |-> d.act, W |-> d.W, pm |-> pm]

\* the whole handler: [act, W, pm]
onMessage(tags, message, self) ==
    LET messageId == tags.id
        username == tags.username
        lowerMessage == toLowerCase(message)
        m == timerMatch(message)
        needsPermission == \/ m # <<>>
                           \/ lowerMessage = T_stop
                           \/ lowerMessage = T_pause
                           \/ lowerMessage = T_resume
        pm == IF messageId # 0 THEN Remember(processedMessages, messageId)
              ELSE processedMessages
    IN  IF self THEN [act |-> "self", W |-> World, pm |-> processedMessages]
        ELSE IF messageId # 0 /\ Includes(processedMessages, messageId)
        THEN [act |-> "duplicate", W |-> World, pm |-> processedMessages]
        ELSE IF needsPermission /\ ~hasPermission(tags)
        THEN [act |-> "denied",
              W |-> IF \/ m # <<>>
                       \/ lowerMessage = T_pause
                       \/ lowerMessage = T_resume
                    THEN sendMessage(World, [kind |-> "refused",
                                             user |-> username])
                    ELSE World,
              pm |-> pm]
        ELSE LET d == dispatch(World, username, message)
             IN  [act |-> d.act, W |-> d.W, pm |-> pm]

----------------------------------------------------------------------------
(* Connection handling *)

\* connectToTwitch() without its test of the attempt counter
connectToTwitch_NoCap(attempts) ==
    IF isConnected THEN [attempts |-> attempts, calls |-> 0]
    ELSE [attempts |-> attempts + 1, calls |-> 1]

\* connectToTwitch(), given the attempt counter it finds:
\* [attempts, calls] = the counter and the number of client.connect() calls
connectToTwitch(attempts) ==
    IF isConnected THEN [attempts |-> attempts, calls |-> 0]
    ELSE IF attempts >= MAX_ATTEMPTS THEN [attempts |-> attempts, calls |-> 0]
    ELSE [attempts |-> attempts + 1, calls |-> 1]

----------------------------------------------------------------------------
(* Bookkeeping shared by the actions *)

NoGhost == [frozen |-> Null, emitAt |-> Null, emits |-> 0]

\* a step: its label, the sender or timer owner, the message identifier,
\* whether that identifier had been recorded before, how many timers left
\* the registry, and the command that was refused when one was
Step(act, user) ==
    [act |-> act, user |-> user, id |-> 0, again |-> FALSE, removed |-> 0,
     cmd |-> ""]

\* the command a chat line is, as the handler tells them apart
Classify(message) ==
    LET lowerMessage == toLowerCase(message)
    IN  IF timerMatch(message) # <<>> THEN "start"
        ELSE IF lowerMessage = T_pause THEN "pause"
        ELSE IF lowerMessage = T_resume THEN "resume"
        ELSE IF lowerMessage = T_stop THEN "stop"
        ELSE IF lowerMessage = T_timers THEN "timers"
        ELSE "other"

SaysProgress(o, username) ==
    \E i \in DOMAIN o : o[i].kind = "progress" /\ o[i].user = username

\* the ghost of object r after a step from heap h to heap h2 in which the
\* objects in fresh were constructed and those in emitters said a progress
\* message
GhostAfter(h, h2, fresh, emitters) ==
    [r \in Refs |->
        IF IsFree(h2, r) THEN NoGhost
        ELSE IF r \in fresh
        THEN [frozen |-> Null, emitAt |-> now, emits |-> 0]
        ELSE [frozen |-> IF h2[r].isPaused /\ ~h[r].isPaused
                         THEN TickRemaining(h[r]) ELSE ghost[r].frozen,
              emitAt |-> IF r \in emitters THEN now ELSE ghost[r].emitAt,
              emits |-> IF r \in emitters THEN ghost[r].emits + 1
                        ELSE ghost[r].emits]]

Init ==
    /\ now = 0
    /\ \E c \in Configs : ALLOWED_USERS = c[1] /\ ALLOW_MODS_AND_BROADCASTER = c[2]
    /\ heap = [r \in Refs |-> NoTimer]
    /\ activeTimers = <<>>
    /\ isConnected = FALSE
    /\ connectionAttempts = 0
    /\ processedMessages = <<>>
    /\ startupPending = TRUE
    /\ retryPending = 0
    /\ reconnectPending = 0
    /\ welcomePending = 0
    /\ connectCalls = 0
    /\ link = "down"
    /\ halted = FALSE
    /\ out = <<>>
    /\ last = Step("init", <<>>)
    /\ msgCount = 0
    /\ ghost = [r \in Refs |-> NoGhost]
    /\ recorded = <<>>

----------------------------------------------------------------------------
(* Actions *)

\* the clock moves on
Advance(t) ==
    /\ ~halted
    /\ t > now
    /\ now' = t
    /\ out' = <<>>
    /\ last' = Step("advance", <<>>)
    /\ UNCHANGED <<cfgVars, heap, activeTimers, processedMessages, connVars,
                   halted, msgCount, ghost, recorded>>

\* the transport delivers a chat message
Message(id, username, badges, message, self) ==
    /\ ~halted
    /\ \E res \in {onMessage([id |-> id, username |-> username,
                                badges |-> badges], message, self)} :
       \E h2 \in {Collect(res.W.heap, res.W.reg)} :
       LET fresh == IF res.act = "start" /\ isConnected
                    THEN {r \in Refs : /\ ~IsFree(h2, r)
                                       /\ h2[r].username = username}
                    ELSE {}
       IN  /\ ~res.W.oom
           /\ heap' = h2
           /\ activeTimers' = res.W.reg
           /\ out' = res.W.out
           /\ processedMessages' = res.pm
           /\ last' = [act |-> res.act, user |-> username, id |-> id,
                        again |-> ~self /\ id # 0 /\ Includes(recorded, id),
                        removed |-> Len(activeTimers) + Cardinality(fresh)
                                      - Len(res.W.reg),
                        cmd |-> IF res.act = "denied"
                                THEN Classify(message) ELSE ""]
           /\ recorded' = IF res.act \notin {"self", "duplicate"} /\ id # 0
                          THEN Append(recorded, id) ELSE recorded
           /\ ghost' = GhostAfter(heap, h2, fresh, {})
    /\ msgCount' = msgCount + 1
    /\ UNCHANGED <<now, cfgVars, connVars, halted>>

\* the interval of Timer object r fires
Tick(r) ==
    /\ ~halted
    /\ ~IsFree(heap, r)
    /\ heap[r].interval = "live"
    /\ now >= heap[r].due
    /\ LET W == tick(World, r)
           h1 == IF W.heap[r].interval = "live"
                 THEN [W.heap EXCEPT ![r].due = now + TICK_MS] ELSE W.heap
           h2 == Collect(h1, W.reg)
       IN  /\ heap' = h2
           /\ activeTimers' = W.reg
           /\ out' = W.out
           /\ ghost' = GhostAfter(heap, h2, {},
                   IF SaysProgress(W.out, heap[r].username) THEN {r} ELSE {})
    /\ last' = [Step("tick", heap[r].username) EXCEPT
                   !.removed = Len(activeTimers) - Len(activeTimers')]
    /\ UNCHANGED <<now, cfgVars, processedMessages, connVars, halted,
                   msgCount, recorded>>

\* setTimeout(() => connectToTwitch(), 2000) fires
StartupTimeout ==
    /\ ~halted
    /\ startupPending
    /\ LET c == connectToTwitch(connectionAttempts)
       IN  /\ connectionAttempts' = c.attempts
           /\ connectCalls' = connectCalls + c.calls
    /\ startupPending' = FALSE
    /\ out' = <<>>
    /\ last' = Step("startup", <<>>)
    /\ UNCHANGED <<now, cfgVars, heap, activeTimers,
                   processedMessages, isConnected, retryPending,
                   reconnectPending, welcomePending, link, halted, msgCount,
                   ghost, recorded>>

\* the retry setTimeout of connectToTwitch's catch block fires
RetryTimeout ==
    /\ ~halted
    /\ retryPending > 0
    /\ LET c == connectToTwitch(connectionAttempts)
       IN  /\ connectionAttempts' = c.attempts
           /\ connectCalls' = connectCalls + c.calls
    /\ retryPending' = retryPending - 1
    /\ out' = <<>>
    /\ last' = Step("retry", <<>>)
    /\ UNCHANGED <<now, cfgVars, heap, activeTimers,
                   processedMessages, isConnected, startupPending,
                   reconnectPending, welcomePending, link, halted, msgCount,
                   ghost, recorded>>

\* the setTimeout of the 'disconnected' handler without
\* connectionAttempts = 0
ReconnectTimeout_NoReset ==
    /\ ~halted
    /\ reconnectPending > 0
    /\ LET c == connectToTwitch(connectionAttempts)
       IN  /\ connectionAttempts' = c.attempts
           /\ connectCalls' = connectCalls + c.calls
    /\ reconnectPending' = reconnectPending - 1
    /\ out' = <<>>
    /\ last' = Step("reconnect", <<>>)
    /\ UNCHANGED <<now, cfgVars, heap, activeTimers,
                   processedMessages, isConnected, startupPending,
                   retryPending, welcomePending, link, halted, msgCount,
                   ghost, recorded>>

\* the setTimeout of the 'disconnected' handler fires
ReconnectTimeout ==
    /\ ~halted
    /\ reconnectPending > 0
    /\ LET c == connectToTwitch(0)
       IN  /\ connectionAttempts' = c.attempts
           /\ connectCalls' = connectCalls + c.calls
    /\ reconnectPending' = reconnectPending - 1
    /\ out' = <<>>
    /\ last' = Step("reconnect", <<>>)
    /\ UNCHANGED <<now, cfgVars, heap, activeTimers,
                   processedMessages, isConnected, startupPending,
                   retryPending, welcomePending, link, halted, msgCount,
                   ghost, recorded>>

\* the 'connected' handler without its "if (isConnected) return"
onConnected_NoGuard == [isConnected |-> TRUE, welcome |-> 1]

\* client.on('connected'): what the handler does to the connection state
onConnected ==
    IF isConnected
    THEN [isConnected |-> isConnected, welcome |-> 0]
    ELSE [isConnected |-> TRUE, welcome |-> 1]

ConnectedHandler ==
    LET c == onConnected
    IN  /\ isConnected' = c.isConnected
        /\ welcomePending' = welcomePending + c.welcome

\* a client.connect() call succeeds: the 'connected' event, then the promise
\* resolves
ConnectResolve ==
    /\ ~halted
    /\ connectCalls > 0
    /\ connectCalls' = connectCalls - 1
    /\ link' = "up"
    /\ ConnectedHandler
    /\ out' = <<>>
    /\ last' = Step("connected", <<>>)
    /\ UNCHANGED <<now, cfgVars, heap, activeTimers,
                   processedMessages, connectionAttempts, startupPending,
                   retryPending, reconnectPending, halted, msgCount,
                   ghost, recorded>>

\* the catch block of connectToTwitch with connectionAttempts = 0 added
ConnectReject_ResetsCounter ==
    /\ ~halted
    /\ connectCalls > 0
    /\ connectCalls' = connectCalls - 1
    /\ isConnected' = FALSE
    /\ connectionAttempts' = 0
    /\ retryPending' = retryPending + 1
    /\ out' = <<>>
    /\ last' = Step("failed", <<>>)
    /\ UNCHANGED <<now, cfgVars, heap, activeTimers,
                   processedMessages, startupPending,
                   reconnectPending, welcomePending, link, halted, msgCount,
                   ghost, recorded>>

\* a client.connect() call fails: the catch block of connectToTwitch
ConnectReject ==
    /\ ~halted
    /\ connectCalls > 0
    /\ connectCalls' = connectCalls - 1
    /\ isConnected' = FALSE
    /\ retryPending' = retryPending + 1
    /\ out' = <<>>
    /\ last' = Step("failed", <<>>)
    /\ UNCHANGED <<now, cfgVars, heap, activeTimers,
                   processedMessages, connectionAttempts, startupPending,
                   reconnectPending, welcomePending, link, halted, msgCount,
                   ghost, recorded>>

\* the transport delivers a 'connected' event again while its session is up
ConnectedEvent ==
    /\ ~halted
    /\ link = "up"
    /\ ConnectedHandler
    /\ out' = <<>>
    /\ last' = Step("connectedAgain", <<>>)
    /\ UNCHANGED <<now, cfgVars, heap, activeTimers,
                   processedMessages, connectionAttempts, startupPending,
                   retryPending, reconnectPending, connectCalls, link, halted,
                   msgCount, ghost, recorded>>

\* client.on('disconnected')
DisconnectedEvent ==
    /\ ~halted
    /\ ~startupPending
    /\ link' = "down"
    /\ isConnected' = FALSE
    /\ reconnectPending' = reconnectPending + 1
    /\ out' = <<>>
    /\ last' = Step("disconnected", <<>>)
    /\ UNCHANGED <<now, cfgVars, heap, activeTimers,
                   processedMessages, connectionAttempts, startupPending,
                   retryPending, welcomePending, connectCalls, halted,
                   msgCount, ghost, recorded>>

\* the settle setTimeout without its "if (isConnected)"
WelcomeTimeout_Unguarded ==
    /\ ~halted
    /\ welcomePending > 0
    /\ welcomePending' = welcomePending - 1
    /\ out' = <<[kind |-> "online"]>>
    /\ last' = Step("welcome", <<>>)
    /\ UNCHANGED <<now, cfgVars, heap, activeTimers,
                   processedMessages, isConnected, connectionAttempts,
                   startupPending, retryPending, reconnectPending,
                   connectCalls, link, halted, msgCount, ghost, recorded>>

\* the settle setTimeout of the 'connected' handler fires
WelcomeTimeout ==
    /\ ~halted
    /\ welcomePending > 0
    /\ welcomePending' = welcomePending - 1
    /\ out' = IF isConnected THEN <<[kind |-> "online"]>> ELSE <<>>
    /\ last' = Step("welcome", <<>>)
    /\ UNCHANGED <<now, cfgVars, heap, activeTimers,
                   processedMessages, isConnected, connectionAttempts,
                   startupPending, retryPending, reconnectPending,
                   connectCalls, link, halted, msgCount, ghost, recorded>>

\* for (const [id, timer] of activeTimers.entries()) timer.cleanup();
RECURSIVE CleanupAll(_, _, _)
CleanupAll(W, entries, i) ==
    IF i > Len(entries) THEN W
    ELSE LET e == entries[i]
             present == \E j \in DOMAIN W.reg : W.reg[j] = e
         IN  CleanupAll(IF present THEN cleanup(W, e.ref) ELSE W, entries, i + 1)

\* process.on('SIGTERM')
Shutdown ==
    /\ ~halted
    /\ LET W == CleanupAll(World, activeTimers, 1)
           h2 == Collect(W.heap, W.reg)
       IN  /\ heap' = h2
           /\ activeTimers' = W.reg
           /\ ghost' = GhostAfter(heap, h2, {}, {})
    /\ halted' = TRUE
    /\ out' = <<>>
    /\ last' = [Step("shutdown", <<>>) EXCEPT
                   !.removed = Len(activeTimers) - Len(activeTimers')]
    /\ UNCHANGED <<now, cfgVars, processedMessages, connVars,
                   msgCount, recorded>>

----------------------------------------------------------------------------
(* The whole program *)

Next ==
    \/ \E t \in Instants : Advance(t)
    \/ \E id \in 0 .. MaxMsgId, sender \in Senders, message \in Lines :
          msgCount < MaxMsgs /\ Message(id, sender[1], sender[2], message, FALSE)
    \/ \E id \in 0 .. MaxMsgId :
          msgCount < MaxMsgs /\ Message(id, bob, Broadcaster, T_1min, TRUE)
    \/ \E r \in Refs : Tick(r)
    \/ StartupTimeout
    \/ RetryTimeout
    \/ ReconnectTimeout
    \/ (isConnected \/ welcomePending < MaxConnPending) /\ ConnectResolve
    \/ ConnectReject
    \/ (isConnected \/ welcomePending < MaxConnPending) /\ ConnectedEvent
    \/ (reconnectPending + retryPending + connectCalls < MaxConnPending
          /\ DisconnectedEvent)
    \/ WelcomeTimeout
    \/ Shutdown

Spec == Init /\ [][Next]_vars

----------------------------------------------------------------------------
(* The program in narrower surroundings: each specification below lets the *)
(* transport, the chat and the clock do only part of what Next lets them   *)
(* do, so each of its behaviours is a behaviour of the program.            *)

\* Chat: every kind of sender and line under every configuration; the
\* session may drop and come back; the clock stands still.
NextChat ==
    \/ \E id \in 0 .. MaxMsgId, sender \in Senders, message \in Lines :
          msgCount < MaxMsgs /\ Message(id, sender[1], sender[2], message, FALSE)
    \/ \E id \in 0 .. MaxMsgId :
          msgCount < MaxMsgs /\ Message(id, bob, Broadcaster, T_1min, TRUE)
    \/ StartupTimeout
    \/ ReconnectTimeout
    \/ (isConnected \/ welcomePending < MaxPending) /\ ConnectResolve
    \/ (reconnectPending + retryPending + connectCalls < MaxPending
          /\ DisconnectedEvent)
    \/ WelcomeTimeout
    \/ Shutdown

SpecChat == Init /\ [][NextChat]_vars

\* Time: the broadcaster commands timers while the clock runs; the default
\* configuration; the session may drop and come back.
TimeLines == {T_1min, T_2min2, T_Pause, T_resume, T_stop, T_Timers}

InitTime == Init /\ ALLOWED_USERS = <<>> /\ ALLOW_MODS_AND_BROADCASTER

NextTime ==
    \/ \E t \in Instants : Advance(t)
    \/ \E message \in TimeLines :
          msgCount < MaxTimeMsgs /\ Message(0, bob, Broadcaster, message, FALSE)
    \/ \E r \in Refs : Tick(r)
    \/ StartupTimeout
    \/ ReconnectTimeout
    \/ (isConnected \/ welcomePending < MaxPending) /\ ConnectResolve
    \/ (reconnectPending + retryPending + connectCalls < MaxPending
          /\ DisconnectedEvent)
    \/ WelcomeTimeout
    \/ Shutdown

SpecTime == InitTime /\ [][NextTime]_vars

\* Owners: two authorized senders start, pause and stop timers while the
\* clock runs; the default configuration; the session stays up.
Owners == {<<bob, Broadcaster>>, <<Alice, Moderator>>}

OwnerLines == {T_1min, T_2min2, T_Pause, T_stop}

NextOwners ==
    \/ \E t \in Instants : Advance(t)
    \/ \E sender \in Owners, message \in OwnerLines :
          msgCount < MaxMsgs /\ Message(0, sender[1], sender[2], message, FALSE)
    \/ \E r \in Refs : Tick(r)
    \/ StartupTimeout
    \/ (isConnected \/ welcomePending < MaxPending) /\ ConnectResolve
    \/ WelcomeTimeout

SpecOwners == InitTime /\ [][NextOwners]_vars

\* Connection: the transport may fail, drop, and repeat its events; one
\* timer start probes the connection flag; the clock stands still.
NextConn ==
    \/ msgCount < MaxConnMsgs /\ Message(0, bob, Broadcaster, T_1min, FALSE)
    \/ StartupTimeout
    \/ RetryTimeout
    \/ ReconnectTimeout
    \/ (isConnected \/ welcomePending < MaxConnPending) /\ ConnectResolve
    \/ ConnectReject
    \/ (isConnected \/ welcomePending < MaxConnPending) /\ ConnectedEvent
    \/ (reconnectPending + retryPending + connectCalls < MaxConnPending
          /\ DisconnectedEvent)
    \/ WelcomeTimeout

SpecConn == InitTime /\ [][NextConn]_vars

\* Duplicate window: a long run of messages whose identifiers are new, with
\* the first identifier coming back at any point.
NextDedup ==
    \/ \E message \in {T_1min, T_other} :
          msgCount < MaxDedupMsgs
            /\ Message(Len(recorded) + 1, bob, Broadcaster, message, FALSE)
    \/ \E message \in {T_1min, T_other} :
          msgCount < MaxDedupMsgs
            /\ Len(recorded) > 0
            /\ Message(1, bob, Broadcaster, message, FALSE)
    \/ StartupTimeout
    \/ (isConnected \/ welcomePending < MaxPending) /\ ConnectResolve

SpecDedup == InitTime /\ [][NextDedup]_vars

\* Completion: time passes and live intervals fire.  Timers are started
\* only into an empty registry, so none is replaced; they may be paused or
\* stopped; the session may drop and come back; the process may be told to
\* end.  The clock has one instant more, a tick period past the last
\* minute, for the tick that follows a tick just before that minute.
LastInstant == MaxMinutes * MS_PER_MINUTE + TICK_MS

LiveInstants == Instants \cup {LastInstant}

LiveLines == {T_1min, T_2min2, T_Timers}

PassTime == \E t \in LiveInstants : Advance(t)

NextLive ==
    \/ PassTime
    \/ \E message \in LiveLines :
          /\ msgCount < MaxLiveMsgs
          /\ activeTimers = <<>>
          /\ Message(0, bob, Broadcaster, message, FALSE)
    \/ \E message \in {T_Pause, T_stop, T_Timers} :
          /\ msgCount < MaxLiveMsgs
          /\ activeTimers # <<>>
          /\ Message(0, bob, Broadcaster, message, FALSE)
    \/ \E r \in Refs : Tick(r)
    \/ StartupTimeout
    \/ ReconnectTimeout
    \/ (isConnected \/ welcomePending < MaxPending) /\ ConnectResolve
    \/ (reconnectPending + retryPending + connectCalls < MaxPending
          /\ DisconnectedEvent)
    \/ WelcomeTimeout
    \/ Shutdown

\* setInterval keeps calling tick() of a live interval, and time passes
SpecLive ==
    /\ InitTime
    /\ [][NextLive]_vars
    /\ WF_vars(PassTime)
    /\ \A r \in Refs : WF_vars(Tick(r))

\* Progress: the broadcaster starts timers of two minutes that announce
\* every minute or every two, pauses and resumes them while the clock runs;
\* the session may drop and come back.
ProgressLines == {T_2min, T_2min2, T_Pause, T_resume}

NextProgress ==
    \/ \E t \in Instants : Advance(t)
    \/ \E message \in ProgressLines :
          /\ msgCount < MaxProgressMsgs
          /\ Message(0, bob, Broadcaster, message, FALSE)
    \/ \E r \in Refs : Tick(r)
    \/ StartupTimeout
    \/ ReconnectTimeout
    \/ (isConnected \/ welcomePending < MaxPending) /\ ConnectResolve
    \/ (reconnectPending + retryPending + connectCalls < MaxPending
          /\ DisconnectedEvent)
    \/ WelcomeTimeout

SpecProgress == InitTime /\ [][NextProgress]_vars

\* Start pattern: the broadcaster sends lines that do and do not match the
\* timer pattern, with zeros for the minutes and for the interval, while the
\* clock runs and the session stays up.
ParseLines == {T_0min, T_1min0, T_min, T_1MIN, T_2min2}

NextParse ==
    \/ \E t \in Instants : Advance(t)
    \/ \E message \in ParseLines :
          /\ msgCount < MaxParseMsgs
          /\ Message(0, bob, Broadcaster, message, FALSE)
    \/ \E r \in Refs : Tick(r)
    \/ StartupTimeout
    \/ (isConnected \/ welcomePending < MaxPending) /\ ConnectResolve
    \/ WelcomeTimeout

SpecParse == InitTime /\ [][NextParse]_vars

\* Gate: every kind of sender sends the commands that need permission,
\* under every configuration, and only while the transport's session is up;
\* connect calls may fail and overlap, so that the session may be up with
\* isConnected false; the clock stands still.
GateLines == {T_1min, T_Pause, T_resume, T_stop}

NextGate ==
    \/ \E sender \in Senders, message \in GateLines :
          /\ msgCount < MaxGateMsgs
          /\ link = "up"
          /\ Message(0, sender[1], sender[2], message, FALSE)
    \/ StartupTimeout
    \/ RetryTimeout
    \/ ReconnectTimeout
    \/ (isConnected \/ welcomePending < MaxConnPending) /\ ConnectResolve
    \/ ConnectReject
    \/ (reconnectPending + retryPending + connectCalls < MaxConnPending
          /\ DisconnectedEvent)
    \/ WelcomeTimeout

SpecGate == Init /\ [][NextGate]_vars

\* Status: the broadcaster starts and pauses a timer, and he and viewers,
\* one of them under his name, ask for the status in either letter case
\* while the clock runs; the default configuration; the session stays up.
StatusSenders == {<<bob, Broadcaster>>, <<bob, NoBadges>>, <<Alice, NoBadges>>}

StatusLines == {T_2min, T_Pause, T_timers, T_Timers}

NextStatus ==
    \/ \E t \in Instants : Advance(t)
    \/ \E sender \in StatusSenders, message \in StatusLines :
          /\ msgCount < MaxStatusMsgs
          /\ Message(0, sender[1], sender[2], message, FALSE)
    \/ \E r \in Refs : Tick(r)
    \/ StartupTimeout
    \/ (isConnected \/ welcomePending < MaxPending) /\ ConnectResolve
    \/ WelcomeTimeout

SpecStatus == InitTime /\ [][NextStatus]_vars

\* Connection, with the reconnect timeout of every disconnected event
\* firing in the end, as a setTimeout does while the process runs.
SpecReconnect == InitTime /\ [][NextConn]_vars /\ WF_vars(ReconnectTimeout)

\* Frame: two authorized senders whose names differ only in letter case
\* give every timer command while the clock runs; the default configuration.
FrameSenders == {<<alice, Moderator>>, <<Alice, Broadcaster>>}

FrameLines == {T_1min, T_Pause, T_resume, T_stop, T_Timers}

NextFrame ==
    \/ \E t \in Instants : Advance(t)
    \/ \E sender \in FrameSenders, message \in FrameLines :
          /\ msgCount < MaxFrameMsgs
          /\ Message(0, sender[1], sender[2], message, FALSE)
    \/ \E r \in Refs : Tick(r)
    \/ StartupTimeout
    \/ (isConnected \/ welcomePending < MaxPending) /\ ConnectResolve
    \/ WelcomeTimeout

SpecFrame == InitTime /\ [][NextFrame]_vars

----------------------------------------------------------------------------
(* Properties *)

\* the Timer objects in the registry
Registered == {activeTimers[i].ref : i \in DOMAIN activeTimers}

OwnedBy(u) == {r \in Registered : heap[r].username = u}

\* the step is the delivery of a chat message
MessageStep == msgCount' = msgCount + 1

\* what never changes in a Timer object
Birth(t) == <<t.id, t.totalMinutes, t.intervalMinutes, t.startTime>>

\* the registry entries of the next state whose timer was not registered
\* before
AddedEntries ==
    {i \in DOMAIN activeTimers' :
        \A j \in DOMAIN activeTimers :
            Birth(heap[activeTimers[j].ref])
              # Birth(heap'[activeTimers'[i].ref])}

\* C1: at any instant the registry holds at most one Timer of each owner;
\* a timer enters the registry only in a timer-start step, it belongs to the
\* sender, and every timer the sender had before is gone.
C1_OnePerOwner ==
    /\ [](\A u \in Usernames : Cardinality(OwnedBy(u)) <= 1)
    /\ [][\A i \in AddedEntries :
            LET t == heap'[activeTimers'[i].ref]
            IN  /\ MessageStep
                /\ last'.act = "start"
                /\ t.username = last'.user
                /\ Cardinality(AddedEntries) = 1
                /\ \A j \in DOMAIN activeTimers' :
                      heap'[activeTimers'[j].ref].username = t.username
                        => j = i]_vars

\* a start has replaced the sender's earlier timer while another owner's
\* timer stayed
C1_Witness ==
    /\ last.act = "start"
    /\ last.removed = 1
    /\ Len(activeTimers) = 2
    /\ \E r \in OwnedBy(last.user) : heap[r].startTime = now /\ now > 0

----------------------------------------------------------------------------
\* the remaining time tick() would compute for Timer object r after the step
RemainingAfter(r) ==
    heap'[r].totalMinutes * MS_PER_MINUTE
        - (now' - heap'[r].startTime - heap'[r].totalPausedTime)

\* a !resume step that takes Timer object r out of its pause
Resumes(r) ==
    /\ MessageStep
    /\ last'.act = "resume"
    /\ ~IsFree(heap, r)
    /\ heap[r].isPaused
    /\ ~heap'[r].isPaused

\* C2: a timer paused when its remaining time was R and resumed after any
\* pause duration P >= 0 has remaining time R immediately after the resume,
\* in every pause/resume cycle, because the resume adds exactly
\* now - pausedAt to the cumulative paused time.
C2_ResumeKeepsRemaining ==
    [][\A r \in Refs : Resumes(r) =>
          /\ heap'[r].totalPausedTime
                 = heap[r].totalPausedTime + (now - heap[r].pausedAt)
          /\ RemainingAfter(r) = ghost[r].frozen]_vars

\* a second resume, each pause having lasted 500 ms
C2_Witness ==
    /\ last.act = "resume"
    /\ \E r \in Registered :
          /\ ~heap[r].isPaused
          /\ heap[r].totalPausedTime = 2 * UPDATE_BUFFER_MS
          /\ ghost[r].frozen = TickRemaining(heap[r])
          /\ ghost[r].frozen > 0

----------------------------------------------------------------------------
\* the identifiers recorded most recently, at most MAX_PROCESSED of them
RecentIds ==
    {recorded[i] : i \in {j \in DOMAIN recorded :
                              j > Len(recorded) - MAX_PROCESSED}}

\* the step delivers a message of another user that carries an identifier
IdentifiedStep ==
    /\ MessageStep
    /\ last'.act # "self"
    /\ last'.id # 0

\* the step leaves the timers and the duplicate window alone and says
\* nothing
Discarded ==
    /\ last'.act = "duplicate"
    /\ out' = <<>>
    /\ UNCHANGED <<heap, activeTimers, processedMessages, recorded>>

\* C3 as stated: whenever a message carries an identifier that an earlier
\* message carried, whatever was delivered in between, it is discarded
\* silently, so exactly one of the two deliveries is dispatched.
C3_AnySequence ==
    [][IdentifiedStep /\ last'.again => Discarded]_vars

\* C3: a message whose identifier is among the MAX_PROCESSED identifiers
\* recorded most recently is discarded silently (no notification, no change
\* to the timers); a message whose identifier is not among them, be it new
\* or recorded longer ago, is dispatched and its identifier recorded.
C3_WithinWindow ==
    /\ [](/\ Len(processedMessages) <= MAX_PROCESSED
          /\ {processedMessages[i] : i \in DOMAIN processedMessages}
                = RecentIds)
    /\ [][IdentifiedStep =>
            IF last'.id \in RecentIds
            THEN Discarded
            ELSE /\ last'.act # "duplicate"
                 /\ recorded' = Append(recorded, last'.id)
                 /\ last'.id \in RecentIds']_vars

\* the oldest identifier of a full window comes again and is discarded
\* while a timer runs
C3_Witness ==
    /\ last.act = "duplicate"
    /\ last.again
    /\ Len(recorded) = MAX_PROCESSED
    /\ last.id = recorded[1]
    /\ activeTimers # <<>>
    /\ out = <<>>

----------------------------------------------------------------------------
\* the tags of a message of sender u wearing badges b
TagsOf(u, b) == [id |-> 0, username |-> u, badges |-> b]

\* the first rule that matches decides, and the rules are in this order:
\* 1 broadcaster, 2 moderator under the flag, 3 allow-list, 4 open mode,
\* 5 nobody else
FirstRule(u, b) ==
    LET isBroadcaster == b.present /\ b.broadcaster
        isModerator == b.present /\ b.moderator
        allowList == {ALLOWED_USERS[i] : i \in DOMAIN ALLOWED_USERS}
    IN  CASE isBroadcaster -> 1
          [] ~isBroadcaster /\ ALLOW_MODS_AND_BROADCASTER /\ isModerator -> 2
          [] /\ ~isBroadcaster
             /\ ~(ALLOW_MODS_AND_BROADCASTER /\ isModerator)
             /\ allowList # {}
             /\ toLowerCase(u) \in allowList -> 3
          [] /\ ~isBroadcaster
             /\ ~(ALLOW_MODS_AND_BROADCASTER /\ isModerator)
             /\ ~(allowList # {} /\ toLowerCase(u) \in allowList)
             /\ allowList = {}
             /\ ~ALLOW_MODS_AND_BROADCASTER -> 4
          [] OTHER -> 5

\* C4: for every sender, badges and configuration hasPermission answers as
\* the first matching rule says (broadcaster, moderator under the flag,
\* lower-cased name in a non-empty allow-list, open mode: authorized;
\* otherwise not).  With an empty list and the flag set an ordinary viewer
\* is refused; with the list [alice] and the flag clear moderator bob is
\* refused.
C4_FirstMatchRules ==
    /\ \A u \in Usernames, b \in Badges :
          hasPermission(TagsOf(u, b)) = (FirstRule(u, b) \in 1 .. 4)
    /\ (ALLOWED_USERS = <<>> /\ ALLOW_MODS_AND_BROADCASTER) =>
          /\ hasPermission(TagsOf(bob, Broadcaster))
          /\ hasPermission(TagsOf(bob, Moderator))
          /\ \A u \in Usernames : ~hasPermission(TagsOf(u, NoBadges))
    /\ (ALLOWED_USERS = <<alice>> /\ ~ALLOW_MODS_AND_BROADCASTER) =>
          /\ ~hasPermission(TagsOf(bob, Moderator))
          /\ hasPermission(TagsOf(Alice, NoBadges))
    /\ (ALLOWED_USERS = <<>> /\ ~ALLOW_MODS_AND_BROADCASTER) =>
          \A u \in Usernames, b \in Badges : hasPermission(TagsOf(u, b))
    /\ last.act = "denied" =>
          \E b \in {s[2] : s \in {x \in Senders : x[1] = last.user}} :
              FirstRule(last.user, b) = 5

\* with the list [alice] and the flag clear, bob's command was refused
C4_Witness ==
    /\ ALLOWED_USERS = <<alice>>
    /\ ~ALLOW_MODS_AND_BROADCASTER
    /\ last.act = "denied"
    /\ last.user = bob
    /\ isConnected
    /\ out = <<[kind |-> "refused", user |-> bob]>>

----------------------------------------------------------------------------
\* C5: while isConnected is false, the delivery of a chat message, whatever
\* its command and sender, creates, removes and changes no timer and says
\* nothing in the channel; a disconnected event makes it so and it stays so
\* until a connected event.
C5_IgnoredWhileDisconnected ==
    /\ [][(MessageStep /\ ~isConnected) =>
            /\ UNCHANGED <<heap, activeTimers>>
            /\ out' = <<>>]_vars
    /\ [][last'.act = "disconnected" => ~isConnected']_vars
    /\ [][(~isConnected /\ isConnected') =>
            last'.act \in {"connected", "connectedAgain"}]_vars

\* a timer start arrives after the session dropped, with a timer registered
C5_Witness ==
    /\ ~isConnected
    /\ reconnectPending > 0
    /\ last.act = "start"
    /\ activeTimers # <<>>
    /\ out = <<>>

----------------------------------------------------------------------------
\* the step is the 'connected' handler, run for a connect() that succeeded
\* or for an event the transport repeats
ConnectedStep == last'.act \in {"connected", "connectedAgain"}

\* the step says the "online" announcement
Announces == \E i \in DOMAIN out' : out'[i].kind = "online"

\* C6: a connected event that finds the session already connected changes
\* no state and schedules no "online" announcement: an announcement is
\* scheduled only by a step that takes isConnected from false to true, one
\* per such step, and each announcement said uses up one that was
\* scheduled; so each transition to connected gives at most one "online".
C6_ConnectedOnce ==
    /\ [][(ConnectedStep /\ isConnected) =>
            /\ UNCHANGED <<isConnected, connectionAttempts, welcomePending,
                           retryPending, reconnectPending, startupPending,
                           heap, activeTimers, processedMessages, cfgVars>>
            /\ out' = <<>>]_vars
    /\ [][welcomePending' > welcomePending =>
            /\ ConnectedStep
            /\ ~isConnected /\ isConnected'
            /\ welcomePending' = welcomePending + 1]_vars
    /\ [][(ConnectedStep /\ ~isConnected) =>
            isConnected' /\ welcomePending' = welcomePending + 1]_vars
    /\ [][Announces =>
            /\ out' = <<[kind |-> "online"]>>
            /\ isConnected
            /\ welcomePending > 0
            /\ welcomePending' = welcomePending - 1]_vars

\* the transport repeats its connected event while the announcement of the
\* first is still to come
C6_Witness ==
    /\ last.act = "connectedAgain"
    /\ isConnected
    /\ welcomePending = 1

----------------------------------------------------------------------------
\* the completion notification of a timer of u over minutes minutes
Complete(u, minutes) == [kind |-> "complete", user |-> u, total |-> minutes]

\* u's start command has just registered a timer that is due early enough
\* for the clock of the model to reach the tick after its end
Started(u) ==
    /\ last.act = "start"
    /\ last.user = u
    /\ isConnected
    /\ \E r \in OwnedBy(u) :
          /\ heap[r].startTime = now
          /\ heap[r].endTime + TICK_MS <= LastInstant

\* u's timer has just been paused or stopped, or the process has ended
Interrupted(u) ==
    \/ halted
    \/ last.act \in {"pause", "stop"} /\ last.user = u /\ isConnected

\* a tick has just taken u's timer out of the registry
TickRemoved(u) ==
    /\ last.act = "tick"
    /\ last.user = u
    /\ last.removed = 1
    /\ OwnedBy(u) = {}

\* the step is a tick that takes timer object r out of the registry
CompletingTick(r) ==
    /\ last'.act = "tick"
    /\ r \in Registered
    /\ heap[r].username = last'.user
    /\ Len(activeTimers') < Len(activeTimers)

\* C7 as stated: a timer started while connected and not paused, stopped
\* or replaced afterwards leaves the registry with its completion
\* notification said in the channel.  A timer leaves the registry on its
\* own only by its completing tick, and a timer that has left gets no
\* notification any more, so the tick that takes it out must say it.
C7_AlwaysNotified ==
    [][\A r \in Refs : CompletingTick(r) =>
          out' = <<Complete(heap[r].username, heap[r].totalMinutes)>>]_vars

\* C7: while the process runs, a timer started while connected and not
\* paused, stopped or replaced afterwards eventually leaves the registry by
\* a tick at or after the end of its duration, and a status query then
\* shows no timer; that tick says the completion notification if the
\* session is connected at that instant and says nothing if it is not.
C7_CompletesWhenDue ==
    /\ \A u \in Usernames : Started(u) ~> (Interrupted(u) \/ TickRemoved(u))
    /\ [][\A r \in Refs : CompletingTick(r) =>
            /\ now >= heap[r].startTime + heap[r].totalPausedTime
                         + heap[r].totalMinutes * MS_PER_MINUTE
            /\ r \notin Registered'
            /\ out' = IF isConnected
                      THEN <<Complete(heap[r].username, heap[r].totalMinutes)>>
                      ELSE <<>>]_vars
    /\ [][(MessageStep /\ last'.act = "timers" /\ OwnedBy(last'.user) = {}
            /\ isConnected) =>
            out' = <<[kind |-> "statusNone", user |-> last'.user]>>]_vars

\* a timer that nothing interrupted has been completed by its tick, after a
\* start and a status query, with the notification said
C7_Witness ==
    /\ TickRemoved(bob)
    /\ msgCount = MaxLiveMsgs
    /\ isConnected
    /\ \E m \in 1 .. MaxMinutes : out = <<Complete(bob, m)>>
    /\ now >= MaxMinutes * MS_PER_MINUTE

----------------------------------------------------------------------------
\* the step is a tick of the live interval of Timer object r
TickOf(r) ==
    /\ last'.act = "tick"
    /\ ~IsFree(heap, r)
    /\ heap[r].interval = "live"
    /\ heap[r].username = last'.user

\* the shortest time between two progress notifications of timer r
Threshold(r) == heap[r].intervalMinutes * MS_PER_MINUTE - UPDATE_BUFFER_MS

\* C8: a tick says a progress notification only when at least the timer's
\* update interval minus the buffer has passed since its previous progress
\* notification, or since its start when there was none, and the tick that
\* says one sets lastUpdate to its instant; a timer announcing every two
\* minutes says nothing one minute after its start.
C8_ProgressSpacing ==
    /\ [][\A r \in Refs :
            (TickOf(r) /\ SaysProgress(out', heap[r].username)) =>
                /\ now - ghost[r].emitAt >= Threshold(r)
                /\ now - heap[r].lastUpdate >= Threshold(r)
                /\ ghost[r].emitAt >= heap[r].startTime
                /\ heap'[r].lastUpdate = now
                /\ Len(out') = 1]_vars
    /\ [][\A r \in Refs :
            (~IsFree(heap, r) /\ ~IsFree(heap', r)
               /\ Birth(heap[r]) = Birth(heap'[r])
               /\ heap'[r].lastUpdate # heap[r].lastUpdate) =>
                /\ TickOf(r)
                /\ heap'[r].lastUpdate = now
                /\ now - heap[r].lastUpdate >= Threshold(r)]_vars

\* a timer announcing every minute says its second progress notification,
\* one minute less the buffer after the first
C8_Witness ==
    /\ last.act = "tick"
    /\ \E r \in Registered :
          /\ SaysProgress(out, heap[r].username)
          /\ heap[r].intervalMinutes = 1
          /\ ghost[r].emits = 2
          /\ heap[r].lastUpdate = now
          /\ now = 2 * MS_PER_MINUTE - UPDATE_BUFFER_MS

----------------------------------------------------------------------------
\* the registry without the entry of Timer object r
Without(r) == SelectSeq(activeTimers, LAMBDA e : e.ref # r)

\* C9: for every registered timer, a second cleanup() right after the first
\* changes nothing: the first removes the timer's own entry and no other,
\* clears its interval, says nothing and touches no other timer, and the
\* second leaves the registry, the interval and every timer as the first
\* left them.
C9_CleanupIdempotent ==
    \A r \in Registered :
        LET once == cleanup(World, r)
            twice == cleanup(once, r)
        IN  /\ once.reg = Without(r)
            /\ once.heap = [heap EXCEPT ![r].interval = "cleared"]
            /\ once.out = <<>>
            /\ ~once.oom
            /\ twice = once

\* a completing tick has just cleaned up its timer, and the paused timer of
\* the other owner is still registered
C9_Witness ==
    /\ last.act = "tick"
    /\ last.removed = 1
    /\ Len(activeTimers) = 1
    /\ heap[activeTimers[1].ref].isPaused
    /\ heap[activeTimers[1].ref].username # last.user

----------------------------------------------------------------------------
NoActive(u) == [kind |-> "noActive", user |-> u]

NoPaused(u) == [kind |-> "noPaused", user |-> u]

\* C10: when a sender who may use the commands says !pause while connected
\* and has no running timer (none, or only a paused one), exactly one
\* "no active timer" notification is said and the registry and every timer
\* stay as they were; likewise !resume without a paused timer says one
\* "no paused timer" notification and changes nothing.  The two
\* notifications are said in no other case.
C10_NothingToPauseOrResume ==
    /\ [][(MessageStep /\ last'.act = "pause" /\ isConnected) =>
            IF \A r \in OwnedBy(last'.user) : heap[r].isPaused
            THEN /\ out' = <<NoActive(last'.user)>>
                 /\ UNCHANGED <<heap, activeTimers>>
            ELSE \A i \in DOMAIN out' : out'[i].kind = "paused"]_vars
    /\ [][(MessageStep /\ last'.act = "resume" /\ isConnected) =>
            IF \A r \in OwnedBy(last'.user) : ~heap[r].isPaused
            THEN /\ out' = <<NoPaused(last'.user)>>
                 /\ UNCHANGED <<heap, activeTimers>>
            ELSE \A i \in DOMAIN out' : out'[i].kind = "resumed"]_vars
    /\ [][\A i \in DOMAIN out' :
            /\ out'[i].kind = "noActive" => last'.act = "pause"
            /\ out'[i].kind = "noPaused" => last'.act = "resume"]_vars

\* !pause from the owner of a timer that was paused some time ago
C10_Witness ==
    /\ last.act = "pause"
    /\ isConnected
    /\ out = <<NoActive(last.user)>>
    /\ OwnedBy(last.user) # {}
    /\ \A r \in OwnedBy(last.user) :
          heap[r].isPaused /\ heap[r].pausedAt < now

----------------------------------------------------------------------------
\* C11: every Timer in the registry has a total duration of at least one
\* minute and an update interval of at least one minute, no chat line
\* leading startTimer to be called with less.
C11_PositiveDurations ==
    \A r \in Registered :
        heap[r].totalMinutes >= 1 /\ heap[r].intervalMinutes >= 1

\* the line !0min has just registered a timer of zero minutes
C11_Witness ==
    /\ last.act = "start"
    /\ out = <<[kind |-> "started", user |-> bob, minutes |-> 0,
                interval |-> 1]>>
    /\ \E r \in Registered :
          /\ heap[r].totalMinutes = 0
          /\ heap[r].endTime = heap[r].startTime

----------------------------------------------------------------------------
\* the step is the reconnect timeout of a disconnected event, which resets
\* the attempt counter
ResetStep == last'.act = "reconnect"

\* the step calls client.connect()
IssuesConnect == connectCalls' > connectCalls

\* C12: the attempt counter never exceeds MAX_ATTEMPTS; every connect call
\* counts as one attempt, so at most MAX_ATTEMPTS calls are made between
\* two resets; once the counter stands at MAX_ATTEMPTS no step makes a
\* connect call until the reconnect timeout of a disconnected event has
\* reset it, and nothing else lowers the counter.
C12_BoundedRetry ==
    /\ [](connectionAttempts \in 0 .. MAX_ATTEMPTS)
    /\ [][IssuesConnect =>
            /\ connectCalls' = connectCalls + 1
            /\ ~isConnected
            /\ connectionAttempts'
                  = (IF ResetStep THEN 0 ELSE connectionAttempts) + 1]_vars
    /\ [][(connectionAttempts = MAX_ATTEMPTS /\ ~ResetStep) =>
            /\ ~IssuesConnect
            /\ connectionAttempts' = MAX_ATTEMPTS]_vars
    /\ [][connectionAttempts' # connectionAttempts =>
            \/ IssuesConnect
            \/ ResetStep /\ connectionAttempts' = 0 /\ isConnected]_vars

\* the retry after the third failed attempt in a row gives up
C12_Witness ==
    /\ last.act = "retry"
    /\ connectionAttempts = MAX_ATTEMPTS
    /\ connectCalls = 0
    /\ retryPending = 0
    /\ reconnectPending = 0
    /\ welcomePending = 0
    /\ ~isConnected
    /\ link = "down"

----------------------------------------------------------------------------
Refused(u) == [kind |-> "refused", user |-> u]

\* the step refuses the command of a sender whom hasPermission turns away
DeniedStep == MessageStep /\ last'.act = "denied"

----------------------------------------------------------------------------
\* the time timer r still has to run: what its tick would compute, or what
\* its tick would have computed at the instant it was paused
TimeLeft(r) ==
    IF heap[r].isPaused THEN ghost[r].frozen ELSE TickRemaining(heap[r])

\* the answer u is due: his timers in registry order, or that he has none
StatusOf(u) ==
    LET owned == SelectSeq(activeTimers, LAMBDA e : heap[e.ref].username = u)
    IN  IF owned = <<>>
        THEN [kind |-> "statusNone", user |-> u]
        ELSE [kind |-> "status", user |-> u,
              timers |-> [i \in DOMAIN owned |->
                  [remaining |-> Ceil(TimeLeft(owned[i].ref), MS_PER_MINUTE),
                   paused |-> heap[owned[i].ref].isPaused]]]

\* C14: !timers in any letter case, from any sender, with permission or
\* without, is never refused, and while connected it is answered with
\* exactly one notification: the sender's own timers, each with its
\* remaining minutes rounded up and its pause flag, or that he has none;
\* the registry and every timer stay as they were.
C14_StatusAnswer ==
    /\ [][(MessageStep /\ last'.act = "timers" /\ isConnected) =>
            /\ out' = <<StatusOf(last'.user)>>
            /\ UNCHANGED <<heap, activeTimers>>]_vars
    /\ [][MessageStep => last'.cmd # "timers"]_vars
    /\ [][\A i \in DOMAIN out' :
            out'[i].kind \in {"status", "statusNone"} =>
                MessageStep /\ last'.act = "timers"]_vars

\* the status of a timer paused some time ago with more than one minute
\* and less than two left is asked for
C14_Witness ==
    /\ last.act = "timers"
    /\ last.user = bob
    /\ isConnected
    /\ out = <<[kind |-> "status", user |-> bob,
                timers |-> <<[remaining |-> 2, paused |-> TRUE]>>]>>
    /\ \E r \in OwnedBy(bob) :
          /\ heap[r].pausedAt < now
          /\ ghost[r].frozen < 2 * MS_PER_MINUTE

----------------------------------------------------------------------------
\* a number with its unit word, in the plural exactly when it is not 1
Counted(n, one, many) == [value |-> n, unit |-> IF n # 1 THEN many ELSE one]

\* remaining time as it is to be reported: whole minutes, rounded up, when
\* a full minute or more remains, else seconds, rounded up
Reported(remaining) ==
    IF remaining >= MS_PER_MINUTE
    THEN Counted(Ceil(remaining, MS_PER_MINUTE), "minute", "minutes")
    ELSE Counted(Ceil(remaining, 1000), "second", "seconds")

\* C15: every progress notification reports the remaining time in minutes,
\* rounded up, when at least one full minute remains and in seconds,
\* rounded up, when less remains, the unit word in the plural exactly when
\* the number is not 1.
C15_MinutesOrSeconds ==
    [][\A r \in Refs :
          (TickOf(r) /\ SaysProgress(out', heap[r].username)) =>
              \A i \in DOMAIN out' :
                  out'[i].time = Reported(TickRemaining(heap[r]))]_vars

\* half a second before its end a timer reports "1 minute"
C15_Witness ==
    /\ last.act = "tick"
    /\ \E r \in Registered :
          /\ TickRemaining(heap[r]) = UPDATE_BUFFER_MS
          /\ out = <<[kind |-> "progress", user |-> heap[r].username,
                      time |-> [value |-> 1, unit |-> "minute"]]>>

----------------------------------------------------------------------------
\* the step is the expiry of a settle delay
WelcomeStep == last'.act = "welcome"

\* C16: the "online" announcement is said only by the expiry of a settle
\* delay and only if isConnected is true at that instant; when a
\* disconnected event came within the settle window and the session has
\* not come back, the expiry says nothing.
C16_SettleGuard ==
    /\ [][WelcomeStep =>
            /\ welcomePending > 0
            /\ out' = IF isConnected THEN <<[kind |-> "online"]>> ELSE <<>>
            /\ UNCHANGED <<isConnected, connectionAttempts, heap,
                           activeTimers>>]_vars
    /\ [][Announces => WelcomeStep /\ isConnected]_vars

\* a settle delay expires after the session dropped and before the
\* reconnect timeout has fired: nothing is said
C16_Witness ==
    /\ last.act = "welcome"
    /\ ~isConnected
    /\ link = "down"
    /\ reconnectPending > 0
    /\ welcomePending = 0
    /\ out = <<>>

----------------------------------------------------------------------------
\* C17: every disconnected event sets isConnected to false, whatever it
\* was, and schedules one reconnect timeout; every scheduled reconnect
\* timeout fires in the end; when it fires the attempt counter is reset and
\* connectToTwitch runs, which makes one connect call (the counter then
\* standing at 1) unless isConnected is true at that instant, when it
\* makes none.
C17_ReconnectAfterDisconnect ==
    /\ [][last'.act = "disconnected" =>
            /\ ~isConnected'
            /\ reconnectPending' = reconnectPending + 1
            /\ UNCHANGED <<connectionAttempts, connectCalls>>]_vars
    /\ [][ResetStep =>
            /\ reconnectPending > 0
            /\ reconnectPending' = reconnectPending - 1
            /\ IF isConnected
               THEN connectionAttempts' = 0 /\ connectCalls' = connectCalls
               ELSE /\ connectionAttempts' = 1
                    /\ connectCalls' = connectCalls + 1]_vars
    /\ [][reconnectPending' < reconnectPending => ResetStep]_vars
    /\ (reconnectPending > 0) ~> (last.act = "reconnect")

\* the reconnect timeout of a second disconnected event fires when the
\* first has already brought the session back: the counter is reset and no
\* connect call is made
C17_Witness ==
    /\ last.act = "reconnect"
    /\ isConnected
    /\ connectionAttempts = 0
    /\ connectCalls = 0
    /\ reconnectPending = 0

----------------------------------------------------------------------------
\* timer object r is registered and paused
Paused(r) == r \in Registered /\ heap[r].isPaused

\* object r is the same registered timer after the step, still paused and
\* with every field as it was
StaysPaused(r) ==
    /\ \E i \in DOMAIN activeTimers' : activeTimers'[i].ref = r
    /\ heap'[r] = heap[r]

\* the step says a progress or completion notification for owner u
Notifies(u) ==
    \E i \in DOMAIN out' :
        /\ out'[i].kind \in {"progress", "complete"}
        /\ out'[i].user = u

\* C18: while a timer is paused its interval is cleared; no step says a
\* progress or completion notification for it, no tick takes it out of the
\* registry, and it stays as it is, however far the clock moves, except when
\* its owner resumes it, stops it or starts another timer, or the process
\* shuts down.
C18_PausedIsSilent ==
    /\ [](\A r \in Refs : Paused(r) => heap[r].interval = "cleared")
    /\ [][\A r \in Refs : Paused(r) =>
            /\ ~Notifies(heap[r].username)
            /\ last'.act = "tick" => StaysPaused(r)
            /\ \/ StaysPaused(r)
               \/ /\ MessageStep
                  /\ last'.act \in {"resume", "stop", "start"}
                  /\ last'.user = heap[r].username
               \/ last'.act = "shutdown"]_vars

\* a timer is still registered and paused after the clock has passed the
\* end of its countdown, the session being connected
C18_Witness ==
    /\ isConnected
    /\ last.act = "advance"
    /\ \E r \in Registered :
          /\ heap[r].isPaused
          /\ heap[r].pausedAt < heap[r].endTime
          /\ now > heap[r].endTime + heap[r].totalPausedTime

----------------------------------------------------------------------------
\* the registry entries whose timer is not owned by u, with the timer
\* objects they refer to, in registry order
OthersOf(reg, h, u) ==
    LET others == SelectSeq(reg, LAMBDA e : h[e.ref].username # u)
    IN  [i \in DOMAIN others |-> <<others[i].id, h[others[i].ref]>>]

\* C19: the delivery of a chat line from a sender leaves every registered
\* timer whose owner is not exactly the sender (letter case included) in
\* the registry and unchanged, and adds no timer for anyone else; handled
\* while connected, a start command leaves the sender with exactly one
\* timer, and !stoptimer leaves the sender with none.
C19_OwnTimersOnly ==
    /\ [][MessageStep =>
            OthersOf(activeTimers', heap', last'.user)
                = OthersOf(activeTimers, heap, last'.user)]_vars
    /\ [][MessageStep /\ isConnected /\ last'.act = "stop" =>
            \A i \in DOMAIN activeTimers' :
                heap'[activeTimers'[i].ref].username # last'.user]_vars
    /\ [][MessageStep /\ isConnected /\ last'.act = "start" =>
            Cardinality({i \in DOMAIN activeTimers' :
                heap'[activeTimers'[i].ref].username = last'.user}) = 1]_vars

\* Alice has just stopped her timer while the running timer of alice is
\* still registered
C19_Witness ==
    /\ last.act = "stop"
    /\ last.user = Alice
    /\ last.removed = 1
    /\ OwnedBy(Alice) = {}
    /\ \E r \in OwnedBy(alice) : ~heap[r].isPaused

----------------------------------------------------------------------------
\* the last MAX_PROCESSED identifiers recorded, in the order of recording
LatestRecorded ==
    IF Len(recorded) <= MAX_PROCESSED THEN recorded
    ELSE SubSeq(recorded, Len(recorded) - MAX_PROCESSED + 1, Len(recorded))

\* C20: after every step the duplicate window holds at most MAX_PROCESSED
\* identifiers, and they are the identifiers recorded last, in the order of
\* recording: each stays until MAX_PROCESSED identifiers have been recorded
\* after it.  A step that records an identifier in a full window drops the
\* identifier at the head, the one recorded earliest, and no other; in a
\* window that is not full it drops none.
C20_FifoWindow ==
    /\ [](/\ Len(processedMessages) <= MAX_PROCESSED
          /\ processedMessages = LatestRecorded)
    /\ [][processedMessages' # processedMessages =>
            /\ IdentifiedStep
            /\ processedMessages' =
                  Append(IF Len(processedMessages) = MAX_PROCESSED
                         THEN Tail(processedMessages)
                         ELSE processedMessages, last'.id)]_vars

\* the first identifier, dropped when the window overflowed, has been
\* recorded again, which dropped the second
C20_Witness ==
    /\ Len(recorded) = MAX_PROCESSED + 2
    /\ recorded[1] = 1
    /\ recorded[Len(recorded)] = 1
    /\ Len(processedMessages) = MAX_PROCESSED
    /\ Head(processedMessages) = 3
    /\ processedMessages[MAX_PROCESSED] = 1

----------------------------------------------------------------------------
\* the step is the delivery of a start command that the bot itself wrote
SelfDelivery ==
    \E id \in 0 .. MaxMsgId : Message(id, bob, Broadcaster, T_1min, TRUE)

\* C21: the delivery of a message written by the bot itself, start command
\* and identifier or not, says nothing and changes neither the duplicate
\* window nor any timer; the delivery of another sender's message without
\* an identifier is never taken for a duplicate and leaves the duplicate
\* window as it was, and the window never holds the missing identifier.
C21_SelfAndUnidentified ==
    /\ [][SelfDelivery =>
            /\ last'.act = "self"
            /\ out' = <<>>
            /\ UNCHANGED <<processedMessages, recorded, heap, activeTimers>>]_vars
    /\ [][MessageStep /\ last'.act # "self" /\ last'.id = 0 =>
            /\ last'.act # "duplicate"
            /\ UNCHANGED <<processedMessages, recorded>>]_vars
    /\ [](~Includes(processedMessages, 0))

\* two messages without identifier have been dispatched, the second
\* leaving a timer, and then a start command of the bot itself, carrying
\* an identifier, has been discarded while connected
C21_Witness ==
    /\ last.act = "self"
    /\ last.id # 0
    /\ isConnected
    /\ ALLOW_MODS_AND_BROADCASTER
    /\ msgCount = MaxMsgs
    /\ recorded = <<>>
    /\ processedMessages = <<>>
    /\ Len(activeTimers) = 1

----------------------------------------------------------------------------
\* the step is a !pause of u that pauses timer object r
Pauses(r) ==
    /\ MessageStep
    /\ last'.act = "pause"
    /\ r \in Registered
    /\ ~heap[r].isPaused
    /\ heap'[r].isPaused

\* C22: at every instant at which a registered timer is paused, getStatus
\* reports the pause flag and the remaining minutes the timer had when the
\* pause began, rounded up, whatever pauses it went through before and
\* however long this one has lasted; the status a !pause step reports is
\* that value too; and neither that step nor a !timers step changes a
\* timer beyond what pause() itself assigns.
C22_FrozenStatus ==
    /\ [](\A r \in Registered : heap[r].isPaused =>
            /\ heap[r].pausedAt <= now
            /\ getStatus(heap[r]) =
                  [remaining |-> Ceil(ghost[r].frozen, MS_PER_MINUTE),
                   isPaused |-> TRUE,
                   total |-> heap[r].totalMinutes])
    /\ [][\A r \in Refs : Pauses(r) =>
            /\ heap' = [heap EXCEPT ![r].isPaused = TRUE,
                                    ![r].pausedAt = now,
                                    ![r].interval = "cleared"]
            /\ out' = <<[kind |-> "paused", user |-> last'.user,
                         remaining |-> Ceil(TickRemaining(heap[r]),
                                            MS_PER_MINUTE)]>>]_vars
    /\ [][MessageStep /\ last'.act = "timers" => heap' = heap]_vars

\* the status of a timer in its second pause is asked for some time after
\* that pause began, the first pause having lasted some time as well
C22_Witness ==
    /\ last.act = "timers"
    /\ isConnected
    /\ \E r \in Registered :
          /\ heap[r].isPaused
          /\ heap[r].totalPausedTime > 0
          /\ heap[r].pausedAt < now
          /\ ghost[r].frozen > 0
          /\ out = <<[kind |-> "status", user |-> heap[r].username,
                      timers |-> <<[remaining |->
                                      Ceil(ghost[r].frozen, MS_PER_MINUTE),
                                    paused |-> TRUE]>>]>>

----------------------------------------------------------------------------
\* the Timer objects whose interval is set and not cleared
Ticking == {r \in Refs : ~IsFree(heap, r) /\ heap[r].interval = "live"}

\* C23: in every state every Timer object whose interval is live is in the
\* registry, and no object outside the registry is left at all; so every
\* tick is the tick of a registered timer, every progress or completion
\* notification is said by such a tick for the owner of that timer, and a
\* timer that a completion, a stop, a replacement or the shutdown took out
\* of the registry is not heard of again.  After the shutdown the registry
\* is empty and nothing ticks.
C23_RemovedIsCancelled ==
    /\ [](Ticking \subseteq Registered)
    /\ [](\A r \in Refs : IsFree(heap, r) \/ r \in Registered)
    /\ [](halted => activeTimers = <<>> /\ Ticking = {})
    /\ [][last'.act = "tick" =>
            \E r \in Ticking \cap Registered :
                heap[r].username = last'.user]_vars
    /\ [][\A i \in DOMAIN out' :
            out'[i].kind \in {"progress", "complete"} =>
                /\ last'.act = "tick"
                /\ out'[i].user = last'.user]_vars

\* the shutdown has just taken a timer that was started earlier out of the
\* registry, and no Timer object is left
C23_Witness ==
    /\ halted
    /\ last.act = "shutdown"
    /\ last.removed = 1
    /\ now > 0
    /\ activeTimers = <<>>
    /\ \A r \in Refs : IsFree(heap, r)

----------------------------------------------------------------------------
\* the step runs connectToTwitch() from the startup or a retry timeout
ConnectStep == last'.act \in {"startup", "retry"}

\* the step is a transport event or the settle timeout
TransportStep ==
    last'.act \in {"connected", "connectedAgain", "failed", "disconnected",
                   "welcome"}

\* C24 as stated: the attempt counter is 0 after a connect call has
\* succeeded.
C24_ResetOnSuccess ==
    [][last'.act = "connected" => connectionAttempts' = 0]_vars

\* C24: connectToTwitch raises the attempt counter by exactly 1 when
\* it passes both guards and makes its connect call, and leaves it alone
\* when it does not; the reconnect timeout of a disconnected event sets it
\* to 0 before that; and no transport event changes it: neither a connect
\* call that succeeds nor one that fails resets it.
C24_CounterSteps ==
    /\ [][ConnectStep =>
            IF ~isConnected /\ connectionAttempts < MAX_ATTEMPTS
            THEN /\ connectionAttempts' = connectionAttempts + 1
                 /\ connectCalls' = connectCalls + 1
            ELSE UNCHANGED <<connectionAttempts, connectCalls>>]_vars
    /\ [][ResetStep =>
            connectionAttempts' = IF isConnected THEN 0 ELSE 1]_vars
    /\ [][TransportStep \/ MessageStep =>
            connectionAttempts' = connectionAttempts]_vars

\* the third connect call in a row has succeeded and the counter still
\* stands at MAX_ATTEMPTS
C24_Witness ==
    /\ last.act = "connected"
    /\ isConnected
    /\ link = "up"
    /\ connectionAttempts = MAX_ATTEMPTS
    /\ connectCalls = 0

----------------------------------------------------------------------------
\* C25: at most one client.connect() call is outstanding in every state,
\* and the catch block of a failed call never runs while isConnected is
\* true, so that it never clears a flag a 'connected' event has set.
C25_OneAttemptAtATime ==
    /\ [](connectCalls <= 1)
    /\ [][last'.act = "failed" => ~isConnected]_vars

\* of two connect calls outstanding together one has succeeded and the
\* other has then failed: the session is up and isConnected is false
C25_Witness ==
    /\ last.act = "failed"
    /\ link = "up"
    /\ ~isConnected
    /\ connectCalls = 0
    /\ retryPending = 1

============================================================================
